---- MODULE Spec2Model ----
(***************************************************************************)
(* Model of packages/core/src/feedback/vue/submitFeedback.ts:              *)
(* FeedbackWebview.submit, the submitFeedback command and its              *)
(* registration, and the activeWebview singleton kept by showFeedbackView. *)
(*                                                                         *)
(* Strings are TLA+ strings.  An optional value (string | undefined) is a  *)
(* set holding at most one string: {} is undefined, {s} is the string s.   *)
(* Every await of the source is a suspension point: the part before it     *)
(* and the part after it are separate actions.                             *)
(***************************************************************************)
EXTENDS Integers, Sequences, FiniteSets, TLC

\* ---------------------------------------------------------------- bounds
\* Submit calls, showFeedbackView calls and Panel instances that exist at the
\* same time.  A Panel instance that is disposed and no longer referenced
\* (by activeWebview or by a suspended call) is collected and its id reused.
\* MaxSubmits bounds the submit calls of SpecSubmit, MaxShows the
\* showFeedbackView calls of Spec; otherwise a specification runs one call
\* of a kind at a time.
MaxSubmits == 1
MaxShows == 2
MaxPanels == 2

\* ------------------------------------------------------- program constants
\* submit: if (message.comment.length < 188)
Threshold == 188

SentimentError == "Choose a reaction (smile/frown)"
CommentError == "Please add atleast 100 characters in the template describing your issue."
FallbackError == "Failed to submit feedback"
placeholder == "placeholder"

\* ------------------------------------------------------------------ inputs
RECURSIVE Rep(_)
Rep(n) ==
    IF n = 0 THEN ""
    ELSE LET half == Rep(n \div 2)
         IN  IF n % 2 = 0 THEN half \o half ELSE half \o half \o "c"

\* comment lengths around the threshold
CommentLens == {Threshold - 1, Threshold, Threshold + 1}
Comments == {Rep(n) : n \in CommentLens}
Sentiments == {"", "Positive"}
\* commentData?: string -- absent, the empty string, or some text
CommentDatas == {{}, {""}, {"ctx"}}
\* commentData of the panel life cycle specification
PanelDatas == {{}, {"ctx"}}
\* two of the five FeedbackId values
FeedbackIds == {"AWS Toolkit", "Amazon Q"}
\* first command argument: the placeholder, or whatever VS Code passes
CommandArgs == {placeholder, "node"}
\* message of the error postFeedback throws
ErrorMessages == {"", "Network error"}

PanelIds == 1..MaxPanels

VARIABLES
    registered,     \* _submitFeedback !== undefined
    defaultId,      \* defaultId captured by the registered command's closure
    cmdResult,      \* the last submitFeedback call: it threw, or what it passed to showFeedbackView
    activeWebview,  \* module-level activeWebview: 0 is undefined, else a panel id
    panels,         \* the Panel instances: their FeedbackWebview fields and webview panel
    shows,          \* showFeedbackView calls suspended at `await activeWebview.show`
    submits         \* submit calls: suspended at `await postFeedback`, or returned

vars == <<registered, defaultId, cmdResult, activeWebview, panels, shows, submits>>

SubmitSlots == DOMAIN submits
ShowSlots == DOMAIN shows

NoPanel == [state |-> "none", feedbackName |-> "", commentData |-> {}, listening |-> FALSE]
IdleShow == [pc |-> "idle", inst |-> 0, wp |-> "none"]
IdleSubmit == [pc |-> "idle", inst |-> 0, sentiment |-> "", comment |-> "", commentData |-> {},
               posted |-> <<>>, settled |-> "none", err |-> {}, ret |-> {},
               metrics |-> <<>>, logs |-> <<>>, disposed |-> FALSE, toast |-> FALSE]
NoCommand == [outcome |-> "none", feedbackName |-> "", commentData |-> {}]

Init ==
    /\ registered = FALSE
    /\ defaultId = ""
    /\ cmdResult = NoCommand
    /\ activeWebview = 0
    /\ panels = [p \in PanelIds |-> NoPanel]
    /\ shows = [k \in 1..MaxShows |-> IdleShow]
    /\ submits = [k \in {1} |-> IdleSubmit]

InitCommand ==
    /\ registered = FALSE
    /\ defaultId = ""
    /\ cmdResult = NoCommand
    /\ activeWebview = 0
    /\ panels = [p \in PanelIds |-> NoPanel]
    /\ shows = [k \in {1} |-> IdleShow]
    /\ submits = [k \in {1} |-> IdleSubmit]

InitSubmit ==
    /\ registered = FALSE
    /\ defaultId = ""
    /\ cmdResult = NoCommand
    /\ activeWebview = 0
    /\ panels = [p \in PanelIds |-> NoPanel]
    /\ shows = [k \in {1} |-> IdleShow]
    /\ submits = [k \in 1..MaxSubmits |-> IdleSubmit]

\* ------------------------------------------------------------ pure helpers
\* JavaScript truthiness of an optional string: defined and not ''.
Truthy(opt) == \E s \in opt : s # ""

\* submit, lines 40-46: the rejection string, or {} when the message is valid.
ValidationErrorCommentFirst(sentiment, comment) ==
    IF Len(comment) < Threshold THEN {CommentError}
    ELSE IF sentiment = "" THEN {SentimentError}
    ELSE {}

ValidationErrorOffByOne(sentiment, comment) ==
    IF sentiment = "" THEN {SentimentError}
    ELSE IF Len(comment) <= Threshold THEN {CommentError}
    ELSE {}

ValidationError(sentiment, comment) ==
    IF sentiment = "" THEN {SentimentError}
    ELSE IF Len(comment) < Threshold THEN {CommentError}
    ELSE {}

\* submit, lines 48-50: message.comment after the optional append.
PostedCommentAlwaysAppend(comment, commentData) ==
    IF commentData # {}
    THEN comment \o "\n\n" \o (CHOOSE s \in commentData : TRUE)
    ELSE comment

PostedComment(comment, commentData) ==
    IF Truthy(commentData)
    THEN comment \o "\n\n" \o (CHOOSE s \in commentData : TRUE)
    ELSE comment

\* submit, line 58: (err as Error).message || 'Failed to submit feedback'
ErrorMessageNoFallback(message) == message

ErrorMessage(message) == IF message # "" THEN message ELSE FallbackError

\* registered command, lines 104-107: the id handed to showFeedbackView.
ResolveIdInverted(first, id, dflt) == IF first = placeholder THEN dflt ELSE id

ResolveId(first, id, dflt) == IF first # placeholder THEN dflt ELSE id

\* submitFeedback, line 90: _submitFeedback === undefined
IsUninitializedNever(reg) == FALSE

IsUninitialized(reg) == ~reg

\* showFeedbackView, line 120: activeWebview ??= new Panel(...)
NullishAssignAlways(current, fresh) == fresh

NullishAssign(current, fresh) == IF current = 0 THEN fresh ELSE current

\* The lowest free slot of a table of calls.
FreeShow(k) ==
    /\ shows[k].pc = "idle"
    /\ \A j \in ShowSlots : j < k => shows[j].pc # "idle"

FreeSubmit(k) ==
    /\ submits[k].pc # "awaitPost"
    /\ \A j \in SubmitSlots : j < k => submits[j].pc = "awaitPost"

\* The id a newly constructed Panel instance gets, 0 when none is free.
FreshPanel ==
    IF \E p \in PanelIds : panels[p].state = "none"
    THEN CHOOSE p \in PanelIds :
            /\ panels[p].state = "none"
            /\ \A q \in PanelIds : q < p => panels[q].state # "none"
    ELSE 0

\* Garbage collection: a disposed Panel instance that neither activeWebview
\* nor a suspended call refers to is gone.
Referenced(p, active, sh, su) ==
    \/ active = p
    \/ \E k \in ShowSlots : sh[k].pc = "awaitShow" /\ sh[k].inst = p
    \/ \E k \in SubmitSlots : su[k].pc = "awaitPost" /\ su[k].inst = p

Collect(ps, active, sh, su) ==
    [p \in PanelIds |->
        IF ps[p].state = "disposed" /\ ~Referenced(p, active, sh, su)
        THEN NoPanel
        ELSE ps[p]]

\* ------------------------------------------------------------------ submit
\* submit, lines 40-46: a validation rejection returns at once.
RejectedSubmitWithMetric(p, sentiment, comment) ==
    [IdleSubmit EXCEPT !.pc = "done", !.sentiment = sentiment, !.comment = comment,
                       !.commentData = panels[p].commentData,
                       !.ret = ValidationError(sentiment, comment),
                       !.metrics = <<"Failed">>]

RejectedSubmit(p, sentiment, comment) ==
    [IdleSubmit EXCEPT !.pc = "done", !.sentiment = sentiment, !.comment = comment,
                       !.commentData = panels[p].commentData,
                       !.ret = ValidationError(sentiment, comment)]

\* submit, lines 48-56: the call up to `await this.telemetry.postFeedback`.
PostingSubmit(p, sentiment, comment) ==
    [IdleSubmit EXCEPT !.pc = "awaitPost", !.inst = p,
                       !.sentiment = sentiment, !.comment = comment,
                       !.commentData = panels[p].commentData,
                       !.posted = <<[comment |-> PostedComment(comment, panels[p].commentData),
                                     sentiment |-> sentiment]>>]

\* submit, lines 57-64: the catch block.
FailedSubmit(s, message) ==
    [s EXCEPT !.pc = "done", !.inst = 0, !.settled = "rejected", !.err = {message},
              !.logs = Append(s.logs, "error: feedback failed: \"" \o s.sentiment
                                       \o "\": " \o ErrorMessage(message)),
              !.metrics = Append(s.metrics, "Failed"),
              !.ret = {ErrorMessage(message)}]

\* submit, lines 66-74: after postFeedback resolved.
SucceededSubmitNoDispose(s) ==
    [s EXCEPT !.pc = "done", !.inst = 0, !.settled = "resolved",
              !.logs = Append(s.logs, "info: feedback sent: \"" \o s.sentiment \o "\""),
              !.metrics = Append(s.metrics, "Succeeded"),
              !.toast = TRUE]

SucceededSubmit(s) ==
    [s EXCEPT !.pc = "done", !.inst = 0, !.settled = "resolved",
              !.logs = Append(s.logs, "info: feedback sent: \"" \o s.sentiment \o "\""),
              !.metrics = Append(s.metrics, "Succeeded"),
              !.disposed = TRUE,
              !.toast = TRUE]

\* The webview panel of instance p is disposed: the listeners showFeedbackView
\* attached with onDidDispose (line 127) run and clear activeWebview.
DisposedPanels(p) ==
    [panels EXCEPT ![p].state = IF @ = "live" THEN "disposed" ELSE @,
                   ![p].listening = FALSE]

ActiveAfterDispose(p) ==
    IF panels[p].state = "live" /\ panels[p].listening THEN 0 ELSE activeWebview

\* The webview of a live panel sends a message: submit runs to its first
\* return or to the await.
Submit(p, sentiment, comment) ==
    /\ panels[p].state = "live"
    /\ \E k \in SubmitSlots :
        /\ FreeSubmit(k)
        /\ submits' = [submits EXCEPT ![k] =
                IF ValidationError(sentiment, comment) # {}
                THEN RejectedSubmit(p, sentiment, comment)
                ELSE PostingSubmit(p, sentiment, comment)]
    /\ UNCHANGED <<registered, defaultId, cmdResult, activeWebview, panels, shows>>

\* postFeedback resolves: lines 66-74.
PostResolves(k) ==
    LET p == submits[k].inst
        done == SucceededSubmit(submits[k])
    IN  /\ submits[k].pc = "awaitPost"
        /\ submits' = [submits EXCEPT ![k] = done]
        /\ activeWebview' = IF done.disposed THEN ActiveAfterDispose(p) ELSE activeWebview
        /\ panels' = Collect(IF done.disposed THEN DisposedPanels(p) ELSE panels,
                             activeWebview', shows, submits')
        /\ UNCHANGED <<registered, defaultId, cmdResult, shows>>

\* postFeedback throws an Error with the given message: lines 57-64.
PostThrows(k, message) ==
    /\ submits[k].pc = "awaitPost"
    /\ submits' = [submits EXCEPT ![k] = FailedSubmit(@, message)]
    /\ panels' = Collect(panels, activeWebview, shows, submits')
    /\ UNCHANGED <<registered, defaultId, cmdResult, activeWebview, shows>>

\* ------------------------------------------------------- panel life cycle
\* VueWebviewPanel.show on an instance whose webview panel is in the given
\* state: it creates the webview panel of a new instance and reveals an open
\* one.  On an instance whose webview panel was disposed it either opens a
\* new webview panel or rejects; reopen chooses.
PanelShow(state, reopen) ==
    IF state = "none" THEN "create"
    ELSE IF state = "live" THEN "reveal"
    ELSE IF reopen THEN "reopen"
    ELSE "reject"

\* showFeedbackView, lines 118-125: the call up to `await activeWebview.show`.
ShowBegin(feedbackName, commentData, reopen) ==
    LET target == NullishAssign(activeWebview, FreshPanel)
        call(wp) == [pc |-> "awaitShow", inst |-> target, wp |-> wp]
    IN  /\ target \in PanelIds
        /\ activeWebview' = target
        /\ \E k \in ShowSlots :
            /\ FreeShow(k)
            /\ LET shown == PanelShow(panels[target].state, reopen) IN
               IF shown = "create"
               THEN \* new Panel(...), then show creates its webview panel
                    /\ panels' = [panels EXCEPT ![target] =
                            [state |-> "live", feedbackName |-> feedbackName,
                             commentData |-> commentData, listening |-> FALSE]]
                    /\ shows' = [shows EXCEPT ![k] = call("current")]
               ELSE IF shown = "reveal"
               THEN /\ UNCHANGED panels
                    /\ shows' = [shows EXCEPT ![k] = call("current")]
               ELSE IF shown = "reopen"
               THEN \* the calls still awaiting the old webview panel keep it
                    /\ panels' = [panels EXCEPT ![target].state = "live",
                                                ![target].listening = FALSE]
                    /\ shows' = [j \in ShowSlots |->
                            IF j = k THEN call("current")
                            ELSE IF shows[j].pc = "awaitShow" /\ shows[j].inst = target
                                    /\ shows[j].wp = "current"
                            THEN [shows[j] EXCEPT !.wp = "old"]
                            ELSE shows[j]]
               ELSE /\ UNCHANGED panels
                    /\ shows' = [shows EXCEPT ![k] = call("none")]

\* showFeedbackView called directly (it is exported).
ShowFeedbackView(feedbackName, commentData, reopen) ==
    /\ ShowBegin(feedbackName, commentData, reopen)
    /\ UNCHANGED <<registered, defaultId, cmdResult, submits>>

\* showFeedbackView, line 127: show has resolved, the dispose listener is
\* attached to the webview panel show returned.  A listener attached to a
\* webview panel that is already disposed never runs.
ShowResumes(k) ==
    LET p == shows[k].inst IN
    /\ shows[k].pc = "awaitShow"
    /\ shows' = [shows EXCEPT ![k] = IdleShow]
    /\ panels' = Collect(IF shows[k].wp = "current" /\ panels[p].state = "live"
                         THEN [panels EXCEPT ![p].listening = TRUE]
                         ELSE panels,
                         activeWebview, shows', submits)
    /\ UNCHANGED <<registered, defaultId, cmdResult, activeWebview, submits>>

\* The user closes the panel.
Dismiss(p) ==
    /\ panels[p].state = "live"
    /\ activeWebview' = ActiveAfterDispose(p)
    /\ panels' = Collect(DisposedPanels(p), activeWebview', shows, submits)
    /\ UNCHANGED <<registered, defaultId, cmdResult, shows, submits>>

\* ----------------------------------------------------------------- command
\* registerSubmitFeedback, lines 100-114.
RegisterSubmitFeedback(dflt) ==
    /\ registered' = TRUE
    /\ defaultId' = dflt
    /\ UNCHANGED <<cmdResult, activeWebview, panels, shows, submits>>

\* submitFeedback, lines 89-98, with the registered command's body, lines 103-109.
SubmitFeedback(first, id, commentData, reopen) ==
    IF IsUninitialized(registered)
    THEN /\ cmdResult' = [NoCommand EXCEPT !.outcome = "threw"]
         /\ UNCHANGED <<registered, defaultId, activeWebview, panels, shows, submits>>
    ELSE LET name == ResolveId(first, id, defaultId) IN
         /\ cmdResult' = [outcome |-> "executed", feedbackName |-> name,
                          commentData |-> commentData]
         /\ ShowBegin(name, commentData, reopen)
         /\ UNCHANGED <<registered, defaultId, submits>>

\* ---------------------------------------------------------- specifications
\* The panel life cycle: showFeedbackView calls, dismissals, and submits of
\* one valid message.
Next ==
    \/ \E n \in FeedbackIds, cd \in PanelDatas, r \in BOOLEAN : ShowFeedbackView(n, cd, r)
    \/ \E k \in ShowSlots : ShowResumes(k)
    \/ \E p \in PanelIds : Dismiss(p)
    \/ \E p \in PanelIds : Submit(p, "Positive", Rep(Threshold))
    \/ \E k \in SubmitSlots : PostResolves(k)
    \/ \E k \in SubmitSlots : PostThrows(k, "Network error")

Spec == Init /\ [][Next]_vars

\* The submitFeedback command, before and after its registration.
NextCommand ==
    \/ \E d \in FeedbackIds : RegisterSubmitFeedback(d)
    \/ \E a \in CommandArgs, id \in FeedbackIds, cd \in CommentDatas, r \in BOOLEAN :
          SubmitFeedback(a, id, cd, r)
    \/ \E k \in ShowSlots : ShowResumes(k)
    \/ \E p \in PanelIds : Dismiss(p)

SpecCommand == InitCommand /\ [][NextCommand]_vars

\* FeedbackWebview.submit on every message, on panels opened by showFeedbackView.
NextSubmit ==
    \/ \E cd \in CommentDatas, r \in BOOLEAN : ShowFeedbackView("AWS Toolkit", cd, r)
    \/ \E k \in ShowSlots : ShowResumes(k)
    \/ \E p \in PanelIds : Dismiss(p)
    \/ \E p \in PanelIds, s \in Sentiments, c \in Comments : Submit(p, s, c)
    \/ \E k \in SubmitSlots : PostResolves(k)
    \/ \E k \in SubmitSlots, m \in ErrorMessages : PostThrows(k, m)

SpecSubmit == InitSubmit /\ [][NextSubmit]_vars

\* ------------------------------------------------------------------ claims
LivePanels == {p \in PanelIds : panels[p].state = "live"}
Started(k) == submits[k].pc # "idle"

\* C1: a submit whose message has an empty sentiment returns
\* 'Choose a reaction (smile/frown)', whatever the comment, and has made no
\* postFeedback call.
C1_EmptySentimentRejected ==
    \A k \in SubmitSlots :
        (Started(k) /\ submits[k].sentiment = "") =>
            /\ submits[k].pc = "done"
            /\ submits[k].ret = {"Choose a reaction (smile/frown)"}
            /\ submits[k].posted = <<>>

C1_Witness ==
    \E k \in SubmitSlots :
        /\ submits[k].pc = "done"
        /\ submits[k].sentiment = ""
        /\ Len(submits[k].comment) < 188
        /\ submits[k].ret = {"Choose a reaction (smile/frown)"}

\* C2: with a non-empty sentiment, submit rejects with the comment-length
\* string and posts nothing exactly when the comment alone has fewer than
\* 188 characters; otherwise postFeedback is called.
C2_CommentThreshold ==
    \A k \in SubmitSlots :
        (Started(k) /\ submits[k].sentiment # "") =>
            IF Len(submits[k].comment) < 188
            THEN /\ submits[k].pc = "done"
                 /\ submits[k].ret =
                        {"Please add atleast 100 characters in the template describing your issue."}
                 /\ submits[k].posted = <<>>
            ELSE /\ Len(submits[k].posted) = 1
                 /\ submits[k].settled = "none" => submits[k].pc = "awaitPost"

C2_Witness ==
    \E k \in SubmitSlots :
        /\ submits[k].sentiment # ""
        /\ Len(submits[k].comment) = 188
        /\ Len(submits[k].posted) = 1

\* C3 as stated: on a webview constructed with commentData the posted
\* comment is comment + "\n\n" + commentData, otherwise the comment as is;
\* the posted sentiment is the message's.
C3_AppendsWheneverSupplied ==
    \A k \in SubmitSlots :
        Len(submits[k].posted) = 1 =>
            /\ submits[k].posted[1].sentiment = submits[k].sentiment
            /\ submits[k].posted[1].comment =
                  IF submits[k].commentData # {}
                  THEN submits[k].comment \o "\n\n"
                          \o (CHOOSE d \in submits[k].commentData : TRUE)
                  ELSE submits[k].comment

\* C3 amended: the append happens when commentData is a non-empty string;
\* with commentData absent or the empty string the comment is posted as is.
C3_AppendsNonEmptyData ==
    \A k \in SubmitSlots :
        Len(submits[k].posted) = 1 =>
            /\ submits[k].posted[1].sentiment = submits[k].sentiment
            /\ submits[k].posted[1].comment =
                  IF \E d \in submits[k].commentData : d # ""
                  THEN submits[k].comment \o "\n\n"
                          \o (CHOOSE d \in submits[k].commentData : TRUE)
                  ELSE submits[k].comment

C3_Witness ==
    \E k \in SubmitSlots :
        /\ Len(submits[k].posted) = 1
        /\ submits[k].commentData = {"ctx"}
        /\ submits[k].posted[1].comment = submits[k].comment \o "\n\nctx"

\* C4: when postFeedback resolves, the submit calls dispose and the panel is
\* closed, exactly one metric is emitted and it is 'Succeeded', and submit
\* returns no error string.
C4_SuccessfulPost ==
    /\ [](\A k \in SubmitSlots :
            submits[k].settled = "resolved" =>
                /\ submits[k].disposed
                /\ submits[k].metrics = <<"Succeeded">>
                /\ submits[k].ret = {})
    /\ [][\A k \in SubmitSlots :
            (submits[k].pc = "awaitPost" /\ submits'[k].settled = "resolved") =>
                panels'[submits[k].inst].state # "live"]_vars

C4_Witness ==
    \E k \in SubmitSlots :
        /\ submits[k].settled = "resolved"
        /\ submits[k].disposed

\* C5 as stated: when postFeedback throws, submit returns the thrown error's
\* message, also when that message is empty; exactly one metric is emitted
\* and it is 'Failed'; dispose is not called.
C5_ReturnsThrownMessage ==
    \A k \in SubmitSlots :
        submits[k].settled = "rejected" =>
            /\ submits[k].ret = submits[k].err
            /\ submits[k].metrics = <<"Failed">>
            /\ ~submits[k].disposed

\* C5 amended: a non-empty message is returned as is, an empty one is
\* replaced by 'Failed to submit feedback'; one 'Failed' metric, no dispose,
\* and the step that handles the throw leaves an open panel open.
C5_ReturnsMessageOrFallback ==
    /\ [](\A k \in SubmitSlots :
            submits[k].settled = "rejected" =>
                /\ submits[k].ret =
                      IF submits[k].err = {""}
                      THEN {"Failed to submit feedback"}
                      ELSE submits[k].err
                /\ submits[k].metrics = <<"Failed">>
                /\ ~submits[k].disposed)
    /\ [][\A k \in SubmitSlots :
            (submits[k].pc = "awaitPost" /\ submits'[k].settled = "rejected") =>
                /\ activeWebview' = activeWebview
                /\ panels[submits[k].inst].state = "live" =>
                        panels'[submits[k].inst].state = "live"]_vars

C5_Witness ==
    \E k \in SubmitSlots :
        /\ submits[k].settled = "rejected"
        /\ submits[k].err = {""}
        /\ submits[k].ret = {"Failed to submit feedback"}

\* C6: before registerSubmitFeedback has run, a submitFeedback call throws
\* and opens no panel; once it has run, a call does not throw and runs the
\* registered command, which calls showFeedbackView.
C6_ThrowsUntilRegistered ==
    /\ [](~registered => cmdResult.outcome # "executed" /\ LivePanels = {})
    /\ [][registered => registered']_vars
    /\ [][cmdResult' # cmdResult =>
            IF registered
            THEN /\ cmdResult'.outcome = "executed"
                 /\ \E k \in ShowSlots :
                        shows[k].pc = "idle" /\ shows'[k].pc = "awaitShow"
            ELSE /\ cmdResult'.outcome = "threw"
                 /\ UNCHANGED <<activeWebview, panels, shows>>]_vars

C6_Witness ==
    /\ ~registered
    /\ cmdResult.outcome = "threw"
    /\ activeWebview = 0

\* C7: at most one panel is live; a showFeedbackView call made while a panel
\* is open constructs no panel and shows the existing one, whose
\* feedbackName and commentData stay as constructed.
C7_AtMostOnePanel ==
    /\ [](Cardinality(LivePanels) <= 1)
    /\ [][\A k \in ShowSlots :
            (/\ shows[k].pc = "idle"
             /\ shows'[k].pc = "awaitShow"
             /\ LivePanels # {}) =>
                /\ activeWebview \in LivePanels
                /\ activeWebview' = activeWebview
                /\ shows'[k].inst = activeWebview
                /\ panels' = panels]_vars

C7_Witness ==
    \E k \in ShowSlots :
        /\ shows[k].pc = "awaitShow"
        /\ shows[k].inst = activeWebview
        /\ panels[activeWebview].state = "live"
        /\ panels[activeWebview].listening

\* C8: activeWebview is cleared whenever the panel is disposed, also when the
\* disposal happens while a showFeedbackView call is still awaiting show: it
\* never refers to a panel that is no longer live.
C8_ActiveClearedOnDispose ==
    activeWebview # 0 => panels[activeWebview].state = "live"

\* C9: a submit call makes at most one postFeedback call and emits at most
\* one metric; a validation rejection posts, emits and logs nothing; a
\* metric is emitted only once the postFeedback call has settled.
C9_OnePostOneMetric ==
    \A k \in SubmitSlots :
        /\ Len(submits[k].posted) <= 1
        /\ Len(submits[k].metrics) <= 1
        /\ (submits[k].pc = "done" /\ submits[k].settled = "none") =>
                /\ submits[k].posted = <<>>
                /\ submits[k].metrics = <<>>
                /\ submits[k].logs = <<>>
        /\ submits[k].metrics # <<>> =>
                /\ submits[k].settled # "none"
                /\ Len(submits[k].posted) = 1
        /\ submits[k].pc = "awaitPost" =>
                /\ submits[k].metrics = <<>>
                /\ submits[k].logs = <<>>

C9_Witness ==
    \E k \in SubmitSlots :
        /\ submits[k].settled = "rejected"
        /\ Len(submits[k].posted) = 1
        /\ Len(submits[k].metrics) = 1

\* C10: the registered command passes the caller's id to showFeedbackView
\* when its first argument is the placeholder and defaultId otherwise, and
\* passes commentData through unchanged.
C10_PlaceholderKeepsId ==
    [][\A a \in CommandArgs, id \in FeedbackIds, cd \in CommentDatas, r \in BOOLEAN :
            (registered /\ SubmitFeedback(a, id, cd, r)) =>
                /\ cmdResult'.outcome = "executed"
                /\ cmdResult'.feedbackName = (IF a = "placeholder" THEN id ELSE defaultId)
                /\ cmdResult'.commentData = cd
                /\ panels[activeWebview'].state = "none" =>
                        /\ panels'[activeWebview'].feedbackName = cmdResult'.feedbackName
                        /\ panels'[activeWebview'].commentData = cd]_vars

C10_Witness ==
    /\ registered
    /\ cmdResult.outcome = "executed"
    /\ cmdResult.feedbackName # defaultId
    /\ cmdResult.commentData = {"ctx"}

====
